---- MODULE Spec2Model ----
(***************************************************************************)
(* Model of digest/task-thread-pool/src/main.rs: the Task state machine    *)
(* (Task::poll), the Manager (Manager::new, Manager::add_pending) and the  *)
(* two classes of futures::channel::mpsc channels that connect them.       *)
(*                                                                         *)
(* Three specifications share the variables and the Drive action:          *)
(*   Spec      a Manager from Manager::new on, growing by add_pending, its *)
(*             tasks driven by the executor, and finally dropped;          *)
(*   SpecTask  Task::poll as a function of every value of the Task type:   *)
(*             the State of each task (Pending, Ready, Done) and the state *)
(*             of its event Sender are drawn in the initial state, and the *)
(*             holders of the other channel ends (the command Sender kept  *)
(*             in TaskInfo, the mailbox Receiver) act on them.             *)
(*   SpecFifo  the tasks all hold a queued event and get no command: the   *)
(*             order in which the mailbox delivers their events.           *)
(***************************************************************************)
EXTENDS Integers, Sequences, FiniteSets, TLC

\* ---------------------------------------------------------------- bounds
\* Number of add_pending calls explored under Spec.
MaxTasks == 4
\* Number of tasks driven side by side under SpecTask.
NumTasks == 1
\* Number of tasks that hold a queued event under SpecFifo.
NumReady == 2

\* ------------------------------------------------------ program constants
\* mpsc::channel(1): buffer of the shared event mailbox.
EventsBuffer == 1
\* mpsc::channel(4): buffer of each task's command channel.
CommandsBuffer == 4

VARIABLES
    executor,       \* Manager.executor: "None" or "Some"
    tasks,          \* Manager.tasks: TaskId -> TaskInfo
    next_task_id,   \* Manager.next_task_id
    local_spawns,   \* Manager.local_spawns: the task ids held there
    events,         \* the mailbox channel (Manager.events_tx / events_rx)
    dropped,        \* TRUE once the Manager value has been dropped
    task,           \* the Task objects that exist: TaskId -> Task
    commands,       \* the command channel of each TaskId
    scheduled,      \* the tasks the executor is about to poll (spawned or woken)
    allocated,      \* history: the TaskIds add_pending allocated, in call order
    execd,          \* history: the TaskIds handed to Executor::exec, in call order
    handed,         \* history: the events start_send placed in the mailbox, in order
    delivered       \* history: the events the mailbox Receiver returned, in order

vars == <<executor, tasks, next_task_id, local_spawns, events, dropped, task,
          commands, scheduled, allocated, execd, handed, delivered>>

\* --------------------------------------------------------------- helpers
Range(s) == {s[i] : i \in 1..Len(s)}

EmptyMap == [x \in {} |-> 0]

\* The sender handle the Manager keeps (TaskInfo.sender, Manager.events_tx).
ManagerSender == -1

\* ------------------------------------------------------ messages (15-51)
\* Event::Established { id }, Event::Notify { id }, ...
Event(kind, id) == [kind |-> kind, id |-> id]

\* Command::NotifyHandler(T): the payload is opaque to Task and Manager.
NotifyHandler == [cmd |-> "NotifyHandler"]

\* ------------------------------------------- futures::channel::mpsc ends
\* mpsc::channel(buffer): an open, empty channel.  buf is the message queue,
\* open is "some Sender is left", rx is "the Receiver is left", parked is the
\* queue of parked Senders, waker is "the Receiver's task is registered".
Channel ==
    [buf |-> <<>>, open |-> TRUE, rx |-> TRUE, parked |-> <<>>, waker |-> FALSE]

\* Sender::poll_ready of sender s.
PollReady(ch, s) ==
    IF ~ch.rx THEN "Err"
    ELSE IF s \in Range(ch.parked) THEN "Pending"
    ELSE "Ok"

\* Mutant of Enqueue: the message overtakes the queued ones.
Enqueue_Front(buf, msg) == <<msg>> \o buf

\* Where Sender::start_send puts a message in the queue.
Enqueue(buf, msg) == Append(buf, msg)

\* Sender::start_send of sender s, which poll_ready found ready: the message is
\* queued, and the sender parks itself when the queue now exceeds the buffer.
StartSend(ch, s, msg, buffer) ==
    IF ~ch.rx THEN ch
    ELSE [ch EXCEPT !.buf = Enqueue(@, msg),
                    !.parked = IF Len(ch.buf) + 1 > buffer THEN Append(@, s) ELSE @,
                    !.waker = FALSE]

\* Stream::poll_next of the Receiver: the oldest message (which unparks one
\* Sender), else None once no Sender is left, else Pending (registering the
\* Receiver's task).
PollNext(ch) ==
    IF ch.buf # <<>> THEN
        [res |-> "Some", msg |-> Head(ch.buf),
         woke |-> IF ch.parked # <<>> THEN {Head(ch.parked)} ELSE {},
         ch |-> [ch EXCEPT !.buf = Tail(@),
                           !.parked = IF @ # <<>> THEN Tail(@) ELSE @]]
    ELSE IF ~ch.open THEN
        [res |-> "None", msg |-> <<>>, woke |-> {}, ch |-> ch]
    ELSE
        [res |-> "Pending", msg |-> <<>>, woke |-> {},
         ch |-> [ch EXCEPT !.waker = TRUE]]

\* --------------------------------------------------------- Task (53-174)
StatePending == [tag |-> "Pending", event |-> <<>>]
StateReady(event) == [tag |-> "Ready", event |-> event]
StateDone == [tag |-> "Done", event |-> <<>>]

\* What one drive did: the State it started from, whether it reached
\* events.poll_ready and with how many commands still buffered, what poll_ready
\* answered, the commands it consumed, whether it called start_send, whether
\* it polled the work item, and which panic ended it ("unreachable" for the
\* unreachable!() of the Pending arm, "completion" for the panic!() of the
\* Done arm).
NoObs ==
    [from |-> "none", attempted |-> FALSE, cmdsLeft |-> 0, ready |-> "none",
     consumed |-> 0, sent |-> FALSE, advanced |-> FALSE, panic |-> "none"]

\* Mutant of TaskPending: the task gets the id after the one allocated.
TaskPending_NextId(id) ==
    [id |-> id + 1, state |-> StatePending, ret |-> "none", obs |-> NoObs]

\* Task::pending
TaskPending(id) == [id |-> id, state |-> StatePending, ret |-> "none", obs |-> NoObs]

\* A drive in progress: the task's fields and the two channels it touches.
\* ret is "continue" while the 'poll loop runs.

\* Mutant of PendingArm: a closed command channel is taken for an empty one.
PendingArm_IgnoreClosed(c) ==
    LET n == PollNext(c.commands) IN
    CASE n.res \in {"Pending", "None"} ->
            [c EXCEPT !.commands = n.ch, !.ret = "continue"]
      [] n.res = "Some" ->
            [c EXCEPT !.commands = n.ch, !.ret = "panic", !.obs.consumed = @ + 1,
                      !.obs.panic = "unreachable"]

\* Mutant of PendingArm: a command sent to a pending task is absorbed.
PendingArm_AbsorbCommand(c) ==
    LET n == PollNext(c.commands) IN
    CASE n.res = "Pending" -> [c EXCEPT !.commands = n.ch, !.ret = "continue"]
      [] n.res = "None"    -> [c EXCEPT !.commands = n.ch, !.ret = "Ready"]
      [] n.res = "Some"    ->
            [c EXCEPT !.commands = n.ch, !.ret = "continue",
                      !.obs.consumed = @ + 1]

\* State::Pending arm of Task::poll.
PendingArm(c) ==
    LET n == PollNext(c.commands) IN
    CASE n.res = "Pending" -> [c EXCEPT !.commands = n.ch, !.ret = "continue"]
      [] n.res = "None"    -> [c EXCEPT !.commands = n.ch, !.ret = "Ready"]
      [] n.res = "Some"    ->
            [c EXCEPT !.commands = n.ch, !.ret = "panic", !.obs.consumed = @ + 1,
                      !.obs.panic = "unreachable"]

\* The command loop of the State::Ready arm: every arm of its match leaves the
\* loop, so it runs once.  closed is the `return Poll::Ready(())` arm.
DrainCommands(ch) ==
    LET n == PollNext(ch) IN
    CASE n.res = "Pending" -> [ch |-> n.ch, closed |-> FALSE, consumed |-> 0]
      [] n.res = "Some"    -> [ch |-> n.ch, closed |-> FALSE, consumed |-> 1]
      [] n.res = "None"    -> [ch |-> n.ch, closed |-> TRUE, consumed |-> 0]

\* Mutant of SendEvent: the Poll::Pending arm forgets to put the event back.
SendEvent_DropOnPending(c, event) ==
    LET r == PollReady(c.events, c.id)
        o == [c.obs EXCEPT !.attempted = TRUE, !.ready = r,
                           !.cmdsLeft = Len(c.commands.buf)] IN
    CASE r = "Pending" ->
            [c EXCEPT !.ret = "Pending", !.obs = o]
      [] r = "Ok" ->
            [c EXCEPT !.events = StartSend(c.events, c.id, event, EventsBuffer),
                      !.ret = "continue", !.obs = [o EXCEPT !.sent = TRUE]]
      [] r = "Err" ->
            [c EXCEPT !.ret = "Ready", !.obs = o]

\* Mutant of SendEvent: a closed mailbox is taken for a ready one.
SendEvent_IgnoreErr(c, event) ==
    LET r == PollReady(c.events, c.id)
        o == [c.obs EXCEPT !.attempted = TRUE, !.ready = r,
                           !.cmdsLeft = Len(c.commands.buf)] IN
    CASE r = "Pending" ->
            [c EXCEPT !.state = StateReady(event), !.ret = "Pending", !.obs = o]
      [] r \in {"Ok", "Err"} ->
            [c EXCEPT !.events = StartSend(c.events, c.id, event, EventsBuffer),
                      !.ret = "continue", !.obs = [o EXCEPT !.sent = TRUE]]

\* The `match this.events.poll_ready(cx)` of the State::Ready arm.
SendEvent(c, event) ==
    LET r == PollReady(c.events, c.id)
        o == [c.obs EXCEPT !.attempted = TRUE, !.ready = r,
                           !.cmdsLeft = Len(c.commands.buf)] IN
    CASE r = "Pending" ->
            [c EXCEPT !.state = StateReady(event), !.ret = "Pending", !.obs = o]
      [] r = "Ok" ->
            [c EXCEPT !.events = StartSend(c.events, c.id, event, EventsBuffer),
                      !.ret = "continue", !.obs = [o EXCEPT !.sent = TRUE]]
      [] r = "Err" ->
            [c EXCEPT !.ret = "Ready", !.obs = o]

\* State::Ready arm of Task::poll.
ReadyArm(c, event) ==
    LET d == DrainCommands(c.commands)
        c1 == [c EXCEPT !.commands = d.ch, !.obs.consumed = @ + d.consumed] IN
    IF d.closed THEN [c1 EXCEPT !.ret = "Ready"]
    ELSE SendEvent(c1, event)

\* Mutant of PollBody: a finished task that is polled again returns.
PollBody_DoneReturns(c) ==
    LET c0 == [c EXCEPT !.state = StateDone] IN
    CASE c.state.tag = "Pending" -> PendingArm(c0)
      [] c.state.tag = "Ready"   -> ReadyArm(c0, c.state.event)
      [] c.state.tag = "Done"    -> [c0 EXCEPT !.ret = "Ready"]

\* One iteration of the 'poll loop: std::mem::replace(&mut this.state,
\* State::Done), then the match on the State taken out.
PollBody(c) ==
    LET c0 == [c EXCEPT !.state = StateDone] IN
    CASE c.state.tag = "Pending" -> PendingArm(c0)
      [] c.state.tag = "Ready"   -> ReadyArm(c0, c.state.event)
      [] c.state.tag = "Done"    ->
            [c0 EXCEPT !.ret = "panic", !.obs.panic = "completion"]

\* Task::poll: the 'poll loop, until an arm returns or panics.
RECURSIVE PollLoop(_)
PollLoop(c) ==
    LET r == PollBody(c) IN
    IF r.ret = "continue" THEN PollLoop(r) ELSE r

TaskPoll(t, cmds, evs) ==
    PollLoop([id |-> t.id, state |-> t.state, ret |-> "continue",
              obs |-> [NoObs EXCEPT !.from = t.state.tag],
              commands |-> cmds, events |-> evs])

\* The drive has returned Poll::Ready(()) or panicked: the task is over.
Finished(t) == t \in DOMAIN task /\ task[t].ret \in {"Ready", "panic"}

\* The executor polls a task it was handed, when it is spawned or woken.
Drive(t) ==
    /\ t \in DOMAIN task
    /\ scheduled[t]
    /\ LET r == TaskPoll(task[t], commands[t], events) IN
        /\ task' = [task EXCEPT ![t] = [id |-> r.id, state |-> r.state,
                                        ret |-> r.ret, obs |-> r.obs]]
        /\ commands' = [commands EXCEPT ![t] = r.commands]
        /\ events' = r.events
        /\ handed' = IF r.obs.sent /\ events.rx
                     THEN Append(handed, task[t].state.event) ELSE handed
    /\ scheduled' = [scheduled EXCEPT ![t] = FALSE]
    /\ UNCHANGED <<executor, tasks, next_task_id, local_spawns, dropped,
                   allocated, execd, delivered>>

\* ---------------------------------------------------- Manager (200-279)
\* Mutant of NextTaskId: the increment is left out.
NextTaskId_NoIncrement(n) == n

\* self.next_task_id.0 += 1
NextTaskId(n) == n + 1

\* Mutant of TaskInfo: the entry is created as established.
TaskInfo_Established == [state |-> "Established"]

\* TaskInfo { sender: tx, state: TaskState::Pending }
TaskInfo == [state |-> "Pending"]

\* Manager::new(executor)
Init ==
    /\ executor \in {"None", "Some"}
    /\ tasks = EmptyMap
    /\ next_task_id = 0
    /\ local_spawns = {}
    /\ events = Channel
    /\ dropped = FALSE
    /\ task = EmptyMap
    /\ commands = EmptyMap
    /\ scheduled = EmptyMap
    /\ allocated = <<>>
    /\ execd = <<>>
    /\ handed = <<>>
    /\ delivered = <<>>

\* Manager::add_pending(future).  With an executor the task is handed to
\* Executor::exec; without one the `else` branch is commented out, so the task
\* is dropped when add_pending returns, and its command Receiver with it.
AddPending ==
    /\ ~dropped
    /\ next_task_id < MaxTasks
    /\ LET task_id == next_task_id IN
        /\ next_task_id' = NextTaskId(next_task_id)
        /\ allocated' = Append(allocated, task_id)
        /\ tasks' = (task_id :> TaskInfo) @@ tasks
        /\ IF executor = "Some"
           THEN /\ commands' = (task_id :> Channel) @@ commands
                /\ task' = (task_id :> TaskPending(task_id)) @@ task
                /\ scheduled' = (task_id :> TRUE) @@ scheduled
                /\ execd' = Append(execd, task_id)
           ELSE /\ commands' = (task_id :> [Channel EXCEPT !.rx = FALSE]) @@ commands
                /\ UNCHANGED <<task, scheduled, execd>>
    /\ UNCHANGED <<executor, local_spawns, events, dropped, handed, delivered>>

\* The Manager value goes out of scope: every TaskInfo.sender and events_rx
\* are dropped, which wakes the tasks registered on those channels.
DropManager ==
    /\ ~dropped
    /\ dropped' = TRUE
    /\ commands' = [t \in DOMAIN commands |->
                        [commands[t] EXCEPT !.open = FALSE, !.parked = <<>>,
                                            !.waker = FALSE]]
    /\ events' = [events EXCEPT !.rx = FALSE, !.buf = <<>>, !.parked = <<>>]
    /\ scheduled' = [t \in DOMAIN scheduled |->
                        IF Finished(t) THEN scheduled[t]
                        ELSE scheduled[t] \/ commands[t].waker
                                          \/ t \in Range(events.parked)]
    /\ UNCHANGED <<executor, tasks, next_task_id, local_spawns, task,
                   allocated, execd, handed, delivered>>

Next ==
    \/ AddPending
    \/ \E t \in DOMAIN task : Drive(t)
    \/ DropManager

Spec == Init /\ [][Next]_vars

\* ------------------------------------------------- SpecTask, SpecFifo
\* The values of State<F> a task can hold when it is driven.
States(id) == {StatePending, StateReady(Event("Established", id)), StateDone}

\* The holders of a mailbox Sender among n tasks: the tasks' clones and
\* Manager.events_tx.
Senders(n) == (0 .. (n - 1)) \cup {ManagerSender}

\* The orders in which some of these Senders were used for one Event::Notify
\* each before the tasks were spawned.
PreOrders(n) ==
    {s \in UNION {[1..k -> Senders(n)] : k \in 0..(n + 1)} :
        \A i, j \in 1..Len(s) : i # j => s[i] # s[j]}

PreEvents(s) == [i \in 1..Len(s) |-> Event("Notify", s[i])]

\* The mailbox after the senders of s sent, in that order.
RECURSIVE PreSent(_)
PreSent(s) ==
    IF s = <<>> THEN Channel
    ELSE LET k == Len(s) IN
         StartSend(PreSent(SubSeq(s, 1, k - 1)), s[k], Event("Notify", s[k]),
                   EventsBuffer)

\* n tasks of a Manager with an executor, spawned, each holding a State with
\* one of the given tags, with empty command channels.
Harness(n, tags) ==
    LET ids == 0 .. (n - 1) IN
    /\ executor = "Some"
    /\ tasks = [t \in ids |-> TaskInfo]
    /\ next_task_id = n
    /\ local_spawns = {}
    /\ dropped = FALSE
    /\ \E st \in [ids -> tags] :
          task = [t \in ids |->
                    [TaskPending(t) EXCEPT !.state =
                        CHOOSE s \in States(t) : s.tag = st[t]]]
    /\ commands = [t \in ids |-> Channel]
    /\ scheduled = [t \in ids |-> TRUE]
    /\ allocated = [i \in 1..n |-> i - 1]
    /\ execd = [i \in 1..n |-> i - 1]
    /\ \E s \in PreOrders(n) :
          /\ events = PreSent(s)
          /\ handed = PreEvents(s)
    /\ delivered = <<>>

InitTask == Harness(NumTasks, {"Pending", "Ready", "Done"})

\* The scenario of tasks that all hold a queued event and get no command.
InitFifo == Harness(NumReady, {"Ready"})

\* The holder of TaskInfo.sender sends a command to task t (the send that
\* Sender::poll_ready allows), waking the task if its Receiver is registered.
SendCommand(t) ==
    /\ ~dropped
    /\ ~Finished(t)
    /\ commands[t].open
    /\ PollReady(commands[t], ManagerSender) = "Ok"
    /\ commands' = [commands EXCEPT ![t] =
                        StartSend(@, ManagerSender, NotifyHandler, CommandsBuffer)]
    /\ scheduled' = [scheduled EXCEPT ![t] = @ \/ commands[t].waker]
    /\ UNCHANGED <<executor, tasks, next_task_id, local_spawns, events, dropped,
                   task, allocated, execd, handed, delivered>>

\* The sender in task t's TaskInfo is dropped: the command channel closes.
CloseCommands(t) ==
    /\ commands[t].open
    /\ commands' = [commands EXCEPT ![t] =
                        [@ EXCEPT !.open = FALSE, !.parked = <<>>, !.waker = FALSE]]
    /\ scheduled' = [scheduled EXCEPT ![t] = @ \/ (commands[t].waker /\ ~Finished(t))]
    /\ UNCHANGED <<executor, tasks, next_task_id, local_spawns, events, dropped,
                   task, allocated, execd, handed, delivered>>

\* The holder of events_rx takes the next event out of the mailbox, which
\* unparks one Sender and wakes the task suspended on it.
RecvEvent ==
    /\ events.rx
    /\ events.buf # <<>>
    /\ LET n == PollNext(events) IN
        /\ events' = n.ch
        /\ delivered' = Append(delivered, n.msg)
        /\ scheduled' = [t \in DOMAIN scheduled |->
                            scheduled[t] \/ (t \in n.woke /\ task[t].ret = "Pending")]
    /\ UNCHANGED <<executor, tasks, next_task_id, local_spawns, dropped, task,
                   commands, allocated, execd, handed>>

\* events_rx is dropped: the mailbox closes for good, its queue is discarded
\* and every parked Sender is woken.
CloseEvents ==
    /\ events.rx
    /\ events' = [events EXCEPT !.rx = FALSE, !.buf = <<>>, !.parked = <<>>]
    /\ scheduled' = [t \in DOMAIN scheduled |->
                        scheduled[t] \/ (t \in Range(events.parked)
                                         /\ task[t].ret = "Pending")]
    /\ UNCHANGED <<executor, tasks, next_task_id, local_spawns, dropped, task,
                   commands, allocated, execd, handed, delivered>>

NextTask ==
    \/ \E t \in DOMAIN task : Drive(t)
    \/ \E t \in DOMAIN task : SendCommand(t)
    \/ \E t \in DOMAIN task : CloseCommands(t)
    \/ RecvEvent
    \/ CloseEvents

SpecTask == InitTask /\ [][NextTask]_vars

NextFifo ==
    \/ \E t \in DOMAIN task : Drive(t)
    \/ \E t \in DOMAIN task : CloseCommands(t)
    \/ RecvEvent
    \/ CloseEvents

SpecFifo == InitFifo /\ [][NextFifo]_vars

\* ================================================================ claims
\* The event task t was created with under SpecTask and SpecFifo.
Queued(t) == Event("Established", t)

\* The holder of TaskInfo.sender is blocked: task t's command channel is full.
ManagerBlocked(t) ==
    commands[t].open /\ PollReady(commands[t], ManagerSender) = "Pending"

\* Task t is suspended on the mailbox: it returned Poll::Pending from
\* events.poll_ready, its Sender is still parked and nothing has woken it.
TaskParked(t) ==
    /\ task[t].state.tag = "Ready"
    /\ task[t].ret = "Pending"
    /\ ~scheduled[t]
    /\ PollReady(events, t) = "Pending"

\* C1 (SpecTask): a drive of a Ready task reaches events.poll_ready only with
\* no command left buffered in its command channel.
C1_DrainFirst ==
    \A t \in DOMAIN task :
        (task[t].obs.from = "Ready" /\ task[t].obs.attempted)
            => task[t].obs.cmdsLeft = 0

\* C2 (SpecTask): no state has the manager blocked on task t's full command
\* channel while t is suspended on the full mailbox with commands buffered.
C2_NoMutualBlock ==
    \A t \in DOMAIN task :
        ~(ManagerBlocked(t) /\ TaskParked(t) /\ commands[t].buf # <<>>)

\* C3 (SpecTask): a drive of a Pending task whose command channel is closed
\* and empty returns Poll::Ready(()) with the task Done, without polling the
\* work item and without touching the mailbox.
C3_CancelPending ==
    [][\A t \in DOMAIN task :
        (Drive(t) /\ task[t].state.tag = "Pending"
                  /\ ~commands[t].open /\ commands[t].buf = <<>>)
            => /\ task'[t].ret = "Ready"
               /\ task'[t].state = StateDone
               /\ ~task'[t].obs.advanced
               /\ ~task'[t].obs.attempted
               /\ events' = events
               /\ handed' = handed]_vars

C3_Witness ==
    \E t \in DOMAIN task :
        /\ task[t].obs.from = "Pending"
        /\ task[t].ret = "Ready"
        /\ task[t].state = StateDone
        /\ ~commands[t].open
        /\ commands[t].buf = <<>>

\* C4 (SpecTask): a drive of a Ready task whose command Sender has been dropped
\* ends the task and hands nothing to the mailbox, whatever is buffered.
C4_CancelReady ==
    [][\A t \in DOMAIN task :
        (Drive(t) /\ task[t].state.tag = "Ready" /\ ~commands[t].open)
            => /\ task'[t].ret = "Ready"
               /\ task'[t].state = StateDone
               /\ events' = events
               /\ handed' = handed]_vars

\* C5 (Spec): the TaskIds add_pending allocated are strictly increasing in
\* call order, hence pairwise distinct.
C5_IdsIncreasing ==
    \A i, j \in 1..Len(allocated) : i < j => allocated[i] < allocated[j]

C5_Witness == Len(allocated) >= 3

\* C6 (SpecTask): a drive of a Ready task to which events.poll_ready answers
\* Poll::Pending returns Poll::Pending, leaves the task Ready with the same
\* event and leaves the mailbox as it was; and the next drive of the suspended
\* task, unless it finds the command channel closed, offers that event again.
C6_NoEventLoss ==
    [][\A t \in DOMAIN task :
        /\ (Drive(t) /\ task[t].state.tag = "Ready"
                     /\ task'[t].obs.ready = "Pending")
              => /\ task'[t].ret = "Pending"
                 /\ task'[t].state = task[t].state
                 /\ events' = events
                 /\ handed' = handed
        /\ (Drive(t) /\ task[t].ret = "Pending"
                     /\ (commands[t].open \/ commands[t].buf # <<>>))
              => /\ task'[t].obs.attempted
                 /\ task'[t].obs.sent =>
                        handed' = Append(handed, task[t].state.event)]_vars

C6_Witness ==
    \E t \in DOMAIN task :
        /\ task[t].obs.from = "Ready"
        /\ task[t].obs.ready = "Pending"
        /\ task[t].ret = "Pending"
        /\ task[t].state = StateReady(Queued(t))

\* C7 (Spec): without an executor every task add_pending created is held
\* in local_spawns and its command Receiver is still open.
C7_CooperativeDispatch ==
    (executor = "None" /\ ~dropped)
        => \A t \in DOMAIN tasks : t \in local_spawns /\ commands[t].rx

\* C8 (Spec): the registry's keys are exactly the tasks that exist and
\* are not over.
C8_RegistryMatchesLive ==
    ~dropped => DOMAIN tasks = {t \in DOMAIN task : ~Finished(t)}

\* C9 (SpecFifo), as claimed: the event of a task added earlier is delivered
\* before the event of a task added later.
C9_FifoByAddOrder ==
    \A i, j \in 1..Len(delivered) :
        (/\ delivered[i].kind = "Established"
         /\ delivered[j].kind = "Established"
         /\ delivered[i].id < delivered[j].id) => i < j

\* C9 (SpecFifo), amended: the mailbox delivers the events in the order in
\* which they were handed to it, whichever task was added first.
C9_FifoByHandoffOrder ==
    /\ Len(delivered) <= Len(handed)
    /\ \A i \in 1..Len(delivered) : delivered[i] = handed[i]
    /\ events.rx => events.buf = SubSeq(handed, Len(delivered) + 1, Len(handed))

C9_Witness ==
    \E i, j \in 1..Len(delivered) :
        /\ i < j
        /\ delivered[i] = Queued(1)
        /\ delivered[j] = Queued(0)

\* C10 (Spec): a drive of a Pending task whose command channel is open and
\* empty returns Poll::Pending and leaves the task Pending.
C10_PendingSuspends ==
    [][\A t \in DOMAIN task :
        (Drive(t) /\ task[t].state.tag = "Pending"
                  /\ commands[t].open /\ commands[t].buf = <<>>)
            => /\ task'[t].ret = "Pending"
               /\ task'[t].state = StatePending]_vars

\* C11 (Spec): a Pending task that was driven without being cancelled and
\* without a command buffered has had its work item polled, and is Pending
\* still or Ready with an event tagged with its own TaskId.
C11_PendingProgress ==
    \A t \in DOMAIN task :
        (/\ task[t].obs.from = "Pending"
         /\ task[t].ret # "Ready"
         /\ task[t].obs.consumed = 0)
            => /\ task[t].obs.advanced
               /\ task[t].state.tag \in {"Pending", "Ready"}
               /\ task[t].state.tag = "Ready" => task[t].state.event.id = t

\* C12 (SpecTask): a drive of a Ready task with an open, empty command
\* channel and a ready mailbox places the event in the mailbox once and
\* returns Poll::Ready(()) with the task Done.
C12_ReadyToDone ==
    [][\A t \in DOMAIN task :
        (Drive(t) /\ task[t].state.tag = "Ready"
                  /\ commands[t].open /\ commands[t].buf = <<>>
                  /\ PollReady(events, t) = "Ok")
            => /\ handed' = Append(handed, task[t].state.event)
               /\ task'[t].state = StateDone
               /\ task'[t].ret = "Ready"]_vars

\* C13 (SpecTask): a drive of a Pending task that finds a NotifyHandler
\* command buffered ends in the unreachable!() panic, with the task's state
\* not set to a State it could go on from and the mailbox untouched.
C13_CommandWhilePending ==
    [][\A t \in DOMAIN task :
        (Drive(t) /\ task[t].state.tag = "Pending" /\ commands[t].buf # <<>>)
            => /\ task'[t].ret = "panic"
               /\ task'[t].obs.panic = "unreachable"
               /\ task'[t].state.tag \notin {"Pending", "Ready"}
               /\ events' = events
               /\ handed' = handed]_vars

C13_Witness ==
    \E t \in DOMAIN task :
        /\ task[t].obs.from = "Pending"
        /\ task[t].obs.consumed = 1
        /\ task[t].obs.panic = "unreachable"

\* C14 (SpecTask): a drive of a task in State::Done ends in the panic!() of
\* the Done arm, leaving the command channel and the mailbox as they were.
C14_DriveAfterDone ==
    [][\A t \in DOMAIN task :
        (Drive(t) /\ task[t].state.tag = "Done")
            => /\ task'[t].ret = "panic"
               /\ task'[t].obs.panic = "completion"
               /\ task'[t].obs.consumed = 0
               /\ ~task'[t].obs.attempted
               /\ commands' = commands
               /\ events' = events
               /\ handed' = handed]_vars

C14_Witness ==
    \E t \in DOMAIN task :
        /\ task[t].obs.from = "Done"
        /\ task[t].ret = "panic"
        /\ task[t].obs.panic = "completion"

\* C15 (SpecTask): a drive of a Ready task with an open, empty command
\* channel and a mailbox whose Receiver is gone returns Poll::Ready(()) with
\* the task Done and places nothing in the mailbox.
C15_ManagerGone ==
    [][\A t \in DOMAIN task :
        (Drive(t) /\ task[t].state.tag = "Ready"
                  /\ commands[t].open /\ commands[t].buf = <<>>
                  /\ ~events.rx)
            => /\ task'[t].ret = "Ready"
               /\ task'[t].state = StateDone
               /\ ~task'[t].obs.sent
               /\ events' = events
               /\ handed' = handed]_vars

C15_Witness ==
    \E t \in DOMAIN task :
        /\ task[t].obs.from = "Ready"
        /\ task[t].obs.ready = "Err"
        /\ task[t].obs.consumed = 0
        /\ task[t].ret = "Ready"
        /\ ~events.rx

\* C16 (Spec): with an executor, the tasks handed to Executor::exec are, call
\* by call, the tasks of the TaskIds allocated; each carries its own TaskId
\* and the Receiver of the command channel registered under that TaskId, and
\* local_spawns holds nothing.
C16_PooledDispatch ==
    executor = "Some" =>
        /\ execd = allocated
        /\ local_spawns = {}
        /\ DOMAIN task = Range(execd)
        /\ \A t \in DOMAIN task :
              /\ task[t].id = t
              /\ t \in DOMAIN tasks
              /\ t \in DOMAIN commands
              /\ (~Finished(t) /\ task[t].ret = "none") => commands[t].rx

C16_Witness ==
    /\ executor = "Some"
    /\ Len(execd) >= 2
    /\ \A i \in 1..Len(execd) : task[execd[i]].id = execd[i]

\* C17 (SpecTask): a drive that returns Poll::Pending leaves the task Pending
\* or Ready, never Done, and the next drive of a task so suspended does not
\* end in the "called after completion" panic.
C17_NoDoneOnSuspension ==
    [][\A t \in DOMAIN task :
        /\ task'[t].ret = "Pending" => task'[t].state.tag \in {"Pending", "Ready"}
        /\ (Drive(t) /\ task[t].ret = "Pending")
              => task'[t].obs.panic # "completion"]_vars

\* C18 (Spec): next_task_id counts the add_pending calls, the registry's keys
\* are the TaskIds below it, every TaskInfo is in state Pending, and an
\* add_pending call leaves the entries already in the registry as they were.
C18_Registry ==
    /\ next_task_id = 0 /\ tasks = EmptyMap
    /\ [][/\ next_task_id' = Len(allocated')
          /\ DOMAIN tasks' = 0 .. (next_task_id' - 1)
          /\ \A t \in DOMAIN tasks' : tasks'[t].state = "Pending"
          /\ \A t \in DOMAIN tasks : t \in DOMAIN tasks' /\ tasks'[t] = tasks[t]
          /\ AddPending => /\ next_task_id' = next_task_id + 1
                           /\ DOMAIN tasks' = DOMAIN tasks \cup {next_task_id}]_vars

C18_Witness ==
    /\ next_task_id = 3
    /\ DOMAIN tasks = {0, 1, 2}
    /\ \A t \in DOMAIN tasks : tasks[t].state = "Pending"

====
